---- MODULE Spec2Model ----
(***************************************************************************)
(* Quiz league server: the live match subsystem (WebSocket rooms, answer   *)
(* submission, score aggregation, match start), the admin guard, practice  *)
(* tokens and competition registration / standings.                        *)
(*                                                                         *)
(* Every handler of the server is an async function: the code between two  *)
(* awaits runs without interruption, and other handlers may run at every   *)
(* await.  A handler is therefore modelled as a task with a program        *)
(* counter, one action per storage call it awaits.  Reads of data that no  *)
(* operation changes (a question's correctAnswer, a match's team ids, a    *)
(* user's role, a competition's fee) are folded into the step before them. *)
(***************************************************************************)
EXTENDS Integers, Sequences, FiniteSets, TLC

\* ------------------------------------------------------------------ bounds
NumSockets == 2
NumHandlers == 2
NumRequests == 2
MaxAnswers == 2
MaxCreated == 1
MaxTokens == 2
MaxUsers == 2
MaxPayments == 2

Sockets == 1..NumSockets
Handlers == 1..NumHandlers
Requests == 1..NumRequests

\* ------------------------------------------------------- the seeded world
\* Ids are opaque strings in the code (uuid / generateId); "none" stands for
\* undefined / null.
None == "none"
UserIds == {"u1", "u2", "admin"}
\* a session may name a user that storage no longer holds (requireAdmin's !user)
MissingUser == "gone"
TeamIds == {"t1", "t2", "t3"}
MatchIds == {"m1", "m2"}
QuestionIds == {"q1"}
\* an id that storage.getQuestion does not find
UnknownQuestion == "q0"
Answers == {"A", "B"}
CompetitionIds == {"c1"}

VARIABLES
    users,            \* storage: users, id -> [role]
    teams,            \* storage: teams, id -> [practiceTokens]
    teamMembers,      \* storage: team_members, set of <<teamId, userId>>
    competitions,     \* storage: competitions, id -> [registrationFee, maxTeams, open]
    registrations,    \* storage: competition_registrations, sequence of rows
    standings,        \* storage: standings, sequence of rows
    payments,         \* storage: payments, sequence of rows
    matches,          \* storage: matches, id -> row
    questions,        \* storage: questions, id -> [correctAnswer, mode]
    playerAnswers,    \* storage: player_answers, sequence of rows (insertion order)
    tokenTransactions,\* storage: token_transactions, sequence of rows
    practiceSessions, \* storage: practice_sessions, sequence of rows
    matchStates,      \* routes.ts matchStates: Map matchId -> state
    matchRooms,       \* routes.ts matchRooms: Map matchId -> Set<WebSocket>
    readyState,       \* each WebSocket's readyState (None before its connection)
    handlers,         \* in-flight ws "message" handlers (async tasks)
    httpReqs,         \* in-flight express handlers (async tasks)
    httpRes,          \* the last HTTP response sent
    lastBroadcast,    \* the last broadcastToMatch call: its message and the sockets sent to
    lastReply,        \* the last ws.send to a handler's own socket: [ws, msg]
    everJoined,       \* per socket: the matches it sent join_match for
    env,              \* process.env: DATABASE_URL and NODE_ENV
    storage           \* the exported storage object, or how loading db.ts ended

storageVars == <<users, teams, teamMembers, competitions, registrations, standings,
                 payments, matches, questions, playerAnswers, tokenTransactions,
                 practiceSessions>>
liveVars == <<matchStates, matchRooms, readyState, handlers>>
observedVars == <<lastBroadcast, lastReply, everJoined>>
processVars == <<env, storage>>
vars == <<users, teams, teamMembers, competitions, registrations, standings,
          payments, matches, questions, playerAnswers, tokenTransactions,
          practiceSessions, matchStates, matchRooms, readyState, handlers,
          httpReqs, httpRes, lastBroadcast, lastReply, everJoined, env, storage>>

\* ----------------------------------------------------------------- helpers
\* Map.get(k) || dflt
MapGet(map, k, dflt) == IF k \in DOMAIN map THEN map[k] ELSE dflt

\* Map.set(k, v)
MapSet(map, k, v) == [x \in DOMAIN map \cup {k} |-> IF x = k THEN v ELSE map[x]]

\* Map.delete(k)
MapDelete(map, k) ==
    IF DOMAIN map \ {k} = {} THEN <<>> ELSE [x \in DOMAIN map \ {k} |-> map[x]]

\* the rows of a table that satisfy a predicate, as a set of indices
Rows(table) == 1..Len(table)

IdleTask == [pc |-> "idle"]

NoMessage == [type |-> None]

\* the state join_match falls back to when matchStates has no entry
DefaultMatchState ==
    [status |-> "waiting", currentQuestion |-> 0, homeScore |-> 0,
     awayScore |-> 0, timeRemaining |-> 30]

\* the state POST /api/admin/matches/:id/start installs
StartedMatchState ==
    [status |-> "live", currentQuestion |-> 0, homeScore |-> 0,
     awayScore |-> 0, timeRemaining |-> 30]

\* a row of the matches table as createMatch leaves it (schema defaults)
NewMatch(home, away) ==
    [competitionId |-> "c1", homeTeamId |-> home, awayTeamId |-> away,
     status |-> "waiting", homeScore |-> 0, awayScore |-> 0]

\* the email and username the seeded users registered with
InitialEmail(u) == u \o "@mail"

InitialUsername(u) == u \o "name"

\* the practice tokens each team holds at the start: t1 has bought some, the
\* other teams hold the schema default
InitialTokens(t) == IF t = "t1" THEN MaxTokens ELSE 0

\* ------------------------------------------------------------ server start
\* a variable of process.env that is not set
Undefined == "undefined"

\* JavaScript truthiness of a string or undefined
Truthy(v) == v \notin {Undefined, ""}

\* the state of the process before db.ts has been loaded
Unstarted == "unstarted"

\* the error db.ts throws; loading the module ends the process with it
StartupError == "Error: DATABASE_URL must be set in production"

\* db.ts: const connectionString =
\*     process.env.DATABASE_URL || process.env.NODE_ENV === 'production'
\*         ? (() => { throw new Error(...) })() : undefined;
\* the conditional operator binds weaker than ||, so the condition is
\* (DATABASE_URL || NODE_ENV === 'production')
connectionString(e) ==
    IF Truthy(e.DATABASE_URL) \/ e.NODE_ENV = "production"
    THEN StartupError
    ELSE Undefined

\* db.ts: pool = connectionString ? new Pool({ connectionString }) : null;
\*        db = pool ? drizzle(pool, { schema }) : null
db(e) == IF Truthy(connectionString(e)) THEN "drizzle" ELSE "null"

\* storage.ts: storage = db ? new DatabaseStorage() : new LocalStorageAdapter();
\* an error thrown while db.ts loads ends the start
SelectStorage(e) ==
    IF connectionString(e) = StartupError THEN StartupError
    ELSE IF db(e) # "null" THEN "DatabaseStorage"
    ELSE "LocalStorageAdapter"

\* the environment of a development machine without a .env file
DevelopmentEnv == [DATABASE_URL |-> Undefined, NODE_ENV |-> "development"]

\* ------------------------------------------------------------------- Init
\* the tables and the in-memory maps of a freshly seeded server
InitData ==
    /\ users = [u \in UserIds |->
                     [role |-> IF u = "admin" THEN "admin" ELSE "user",
                      email |-> InitialEmail(u), username |-> InitialUsername(u)]]
    /\ teams = [t \in TeamIds |-> [practiceTokens |-> InitialTokens(t)]]
    /\ teamMembers = {<<"t1", "u1">>, <<"t2", "u2">>}
    /\ competitions = [c \in CompetitionIds |->
                          [registrationFee |-> 10, maxTeams |-> 2, open |-> TRUE]]
    /\ registrations = <<>>
    /\ standings = <<>>
    /\ payments = <<>>
    /\ matches = [m \in MatchIds |->
                     IF m = "m1" THEN NewMatch("t1", "t2") ELSE NewMatch("t2", "t3")]
    /\ questions = [q \in QuestionIds |-> [correctAnswer |-> "A", mode |-> "competition"]]
    /\ playerAnswers = <<>>
    /\ tokenTransactions = <<>>
    /\ practiceSessions = <<>>
    /\ matchStates = <<>>
    /\ matchRooms = <<>>
    /\ readyState = [s \in Sockets |-> None]
    /\ handlers = [h \in Handlers |-> IdleTask]
    /\ httpReqs = [r \in Requests |-> IdleTask]
    /\ httpRes = [route |-> None, session |-> None, status |-> 0]
    /\ lastBroadcast = [matchId |-> None, msg |-> NoMessage, to |-> {}]
    /\ lastReply = [ws |-> 0, msg |-> NoMessage]
    /\ everJoined = [s \in Sockets |-> {}]

\* the server after its start on a development machine
Init ==
    /\ InitData
    /\ env = DevelopmentEnv
    /\ storage = SelectStorage(env)

\* --------------------------------------------------------- WebSocket rooms
\* wss.on("connection"): a client connects; the socket is OPEN
wss_connection(s) ==
    /\ readyState[s] = None
    /\ readyState' = [readyState EXCEPT ![s] = "OPEN"]
    /\ UNCHANGED <<processVars, storageVars, matchStates, matchRooms, handlers, httpReqs, httpRes,
                   observedVars>>

\* the closing handshake starts: readyState leaves OPEN before "close" is emitted
ws_closing(s) ==
    /\ readyState[s] = "OPEN"
    /\ readyState' = [readyState EXCEPT ![s] = "CLOSING"]
    /\ UNCHANGED <<processVars, storageVars, matchStates, matchRooms, handlers, httpReqs, httpRes,
                   observedVars>>

\* close handler that removes the socket and leaves the emptied rooms in the map
CloseCleanup_KeepEmptyRooms(rooms, s) == [m \in DOMAIN rooms |-> rooms[m] \ {s}]

\* matchRooms.forEach: clients.delete(ws); an emptied room is deleted
CloseCleanup(rooms, s) ==
    LET keep == {m \in DOMAIN rooms : rooms[m] \ {s} # {}}
    IN  IF keep = {} THEN <<>> ELSE [m \in keep |-> rooms[m] \ {s}]

\* ws.on("close")
ws_close(s) ==
    /\ readyState[s] \in {"OPEN", "CLOSING"}
    /\ readyState' = [readyState EXCEPT ![s] = "CLOSED"]
    /\ matchRooms' = CloseCleanup(matchRooms, s)
    /\ UNCHANGED <<processVars, storageVars, matchStates, handlers, httpReqs, httpRes, observedVars>>

\* the room join_match leaves for matchId: created when missing, ws added
JoinRoom(rooms, m, s) == MapSet(rooms, m, MapGet(rooms, m, {}) \cup {s})

\* ws.send(data) on the handler's own socket: delivered when the socket is
\* open, dropped otherwise
Send(s, msg) == IF readyState[s] = "OPEN" THEN [ws |-> s, msg |-> msg] ELSE lastReply

\* message.type === "join_match"
join_match(s, m) ==
    /\ readyState[s] = "OPEN"
    /\ matchRooms' = JoinRoom(matchRooms, m, s)
    /\ LET state == MapGet(matchStates, m, DefaultMatchState)
       IN  lastReply' = Send(s,
               [type |-> "match_state", status |-> state.status,
                currentQuestion |-> state.currentQuestion,
                homeScore |-> state.homeScore, awayScore |-> state.awayScore,
                timeRemaining |-> state.timeRemaining])
    /\ everJoined' = [everJoined EXCEPT ![s] = @ \cup {m}]
    /\ UNCHANGED <<processVars, storageVars, matchStates, readyState, handlers, httpReqs, httpRes,
                   lastBroadcast>>

\* broadcast that ignores the room: every open client of the server
BroadcastRecipients_AllClients(m) == {c \in Sockets : readyState[c] = "OPEN"}

\* the clients broadcastToMatch sends to: the room's sockets that are OPEN
BroadcastRecipients(m) ==
    {c \in MapGet(matchRooms, m, {}) : readyState[c] = "OPEN"}

\* broadcastToMatch(matchId, message)
broadcastToMatch(m, msg) ==
    LET to == BroadcastRecipients(m)
    IN  lastBroadcast' = [matchId |-> m, msg |-> msg, to |-> to]

\* ------------------------------------------------------------ submit_answer
\* the stored answers of a match (getAnswersByMatch), as indices of the table
AnswersByMatch(m) == {i \in Rows(playerAnswers) : playerAnswers[i].matchId = m}

\* the loop of routes.ts 119-127 over a set of answers
TeamScore(answerIdx, team) ==
    Cardinality({i \in answerIdx : playerAnswers[i].isCorrect
                                   /\ playerAnswers[i].teamId = team})

\* the scores the loop of routes.ts 122-127 gives a team: an answer of a team
\* that is both home and away counts as home only (else if)
AwayScoreOf(answerIdx, home, away) ==
    IF home = away THEN 0 ELSE TeamScore(answerIdx, away)

\* getPlayerScoresByMatch: userId -> number of correct answers
PlayerScores(m) ==
    LET idx == AnswersByMatch(m)
        us == {playerAnswers[i].userId : i \in idx}
    IN  IF us = {} THEN <<>>
        ELSE [u \in us |-> Cardinality({i \in idx : playerAnswers[i].userId = u
                                                  /\ playerAnswers[i].isCorrect})]

\* message.type === "submit_answer": getQuestion and getMatch; nothing happens
\* unless both are found
submit_answer(h, s, m, u, q, a, t) ==
    /\ readyState[s] = "OPEN"
    /\ handlers[h].pc = "idle"
    /\ IF q \in DOMAIN questions /\ m \in DOMAIN matches
       THEN handlers' = [handlers EXCEPT ![h] =
                [pc |-> "submitAnswer", ws |-> s, matchId |-> m, userId |-> u,
                 questionId |-> q, teamId |-> t, answer |-> a,
                 isCorrect |-> (a = questions[q].correctAnswer),
                 homeTeamId |-> matches[m].homeTeamId,
                 awayTeamId |-> matches[m].awayTeamId,
                 homeScore |-> 0, awayScore |-> 0]]
       ELSE UNCHANGED handlers
    /\ UNCHANGED <<processVars, storageVars, matchStates, matchRooms, readyState, httpReqs, httpRes,
                   observedVars>>

\* await storage.submitAnswer(...); ws.send(answer_result)
submit_storeAnswer(h) ==
    LET t == handlers[h]
    IN  /\ t.pc = "submitAnswer"
        /\ playerAnswers' = Append(playerAnswers,
               [matchId |-> t.matchId, questionId |-> t.questionId,
                userId |-> t.userId, teamId |-> t.teamId, answer |-> t.answer,
                isCorrect |-> t.isCorrect])
        /\ lastReply' = Send(t.ws,
               [type |-> "answer_result", isCorrect |-> t.isCorrect])
        /\ handlers' = [handlers EXCEPT ![h].pc = "getAnswers"]
        /\ UNCHANGED <<processVars, users, teams, teamMembers, competitions, registrations,
                       standings, payments, matches, questions, tokenTransactions,
                       practiceSessions, matchStates, matchRooms, readyState,
                       httpReqs, httpRes, lastBroadcast, everJoined>>

\* await storage.getAnswersByMatch(matchId); the scores are counted from it
submit_countScores(h) ==
    LET t == handlers[h]
    IN  /\ t.pc = "getAnswers"
        /\ handlers' = [handlers EXCEPT
               ![h].pc = "updateMatch",
               ![h].homeScore = TeamScore(AnswersByMatch(t.matchId), t.homeTeamId),
               ![h].awayScore = AwayScoreOf(AnswersByMatch(t.matchId), t.homeTeamId,
                                           t.awayTeamId)]
        /\ UNCHANGED <<processVars, storageVars, matchStates, matchRooms, readyState, httpReqs,
                       httpRes, observedVars>>

\* await storage.updateMatch(matchId, { homeScore, awayScore })
submit_updateMatch(h) ==
    LET t == handlers[h]
    IN  /\ t.pc = "updateMatch"
        /\ matches' = [matches EXCEPT ![t.matchId].homeScore = t.homeScore,
                                      ![t.matchId].awayScore = t.awayScore]
        /\ handlers' = [handlers EXCEPT ![h].pc = "setState"]
        /\ UNCHANGED <<processVars, users, teams, teamMembers, competitions, registrations,
                       standings, payments, questions, playerAnswers,
                       tokenTransactions, practiceSessions, matchStates, matchRooms,
                       readyState, httpReqs, httpRes, observedVars>>

\* const state = matchStates.get(matchId); if (state) { ... }
submit_setState(h) ==
    LET t == handlers[h]
    IN  /\ t.pc = "setState"
        /\ matchStates' =
               IF t.matchId \in DOMAIN matchStates
               THEN [matchStates EXCEPT ![t.matchId].homeScore = t.homeScore,
                                        ![t.matchId].awayScore = t.awayScore]
               ELSE matchStates
        /\ handlers' = [handlers EXCEPT ![h].pc = "broadcast"]
        /\ UNCHANGED <<processVars, storageVars, matchRooms, readyState, httpReqs, httpRes,
                       observedVars>>

\* await storage.getPlayerScoresByMatch(matchId); broadcastToMatch(score_update)
submit_broadcast(h) ==
    LET t == handlers[h]
    IN  /\ t.pc = "broadcast"
        /\ broadcastToMatch(t.matchId,
               [type |-> "score_update", playerScores |-> PlayerScores(t.matchId),
                homeScore |-> t.homeScore, awayScore |-> t.awayScore])
        /\ handlers' = [handlers EXCEPT ![h] = IdleTask]
        /\ UNCHANGED <<processVars, storageVars, matchStates, matchRooms, readyState, httpReqs,
                       httpRes, lastReply, everJoined>>

\* ------------------------------------------------------------ admin routes
\* requireAuth: 401 without a session user, else next() (0)
requireAuth(sess) == IF sess = None THEN 401 ELSE 0

\* an admin guard that only checks that the session has a user
requireAdmin_AnyUser(sess) == requireAuth(sess)

\* requireAdmin: 401 without a session user, 403 unless storage holds the user
\* with role admin, else next() (0)
requireAdmin(sess) ==
    IF sess = None THEN 401
    ELSE IF sess \notin DOMAIN users \/ users[sess].role # "admin" THEN 403
    ELSE 0

AdminRoutes == {"GET /api/admin", "POST /api/admin/competitions",
                "POST /api/admin/questions", "POST /api/admin/matches/:id/start"}

Respond(route, sess, status) == [route |-> route, session |-> sess, status |-> status]

\* a request to an /api/admin route arrives and passes through requireAdmin;
\* arg is the :id of the match to start, or whether the body passes the schema
admin_request(r, route, sess, arg) ==
    /\ httpReqs[r].pc = "idle"
    /\ route \in AdminRoutes
    /\ LET guard == requireAdmin(sess)
       IN  IF guard # 0
           THEN /\ httpRes' = Respond(route, sess, guard)
                /\ UNCHANGED httpReqs
           ELSE /\ httpReqs' = [httpReqs EXCEPT ![r] =
                        [pc |-> "handler", route |-> route, session |-> sess,
                         arg |-> arg]]
                /\ UNCHANGED httpRes
    /\ UNCHANGED <<processVars, storageVars, liveVars, observedVars>>

\* GET /api/admin: storage.getAdminData() only reads
admin_getAdminData(r) ==
    LET t == httpReqs[r]
    IN  /\ t.pc = "handler"
        /\ t.route = "GET /api/admin"
        /\ httpRes' = Respond(t.route, t.session, 200)
        /\ httpReqs' = [httpReqs EXCEPT ![r] = IdleTask]
        /\ UNCHANGED <<processVars, storageVars, liveVars, observedVars>>

\* the id storage gives a new row of a table keyed by id
NewId(prefix, table) == prefix \o ToString(Cardinality(DOMAIN table) + 1)

\* POST /api/admin/competitions: a body the schema rejects answers 400
admin_createCompetition(r) ==
    LET t == httpReqs[r]
    IN  /\ t.pc = "handler"
        /\ t.route = "POST /api/admin/competitions"
        /\ IF t.arg = "valid"
           THEN /\ competitions' = MapSet(competitions, NewId("c", competitions),
                        [registrationFee |-> 10, maxTeams |-> 2, open |-> TRUE])
                /\ httpRes' = Respond(t.route, t.session, 200)
           ELSE /\ UNCHANGED competitions
                /\ httpRes' = Respond(t.route, t.session, 400)
        /\ httpReqs' = [httpReqs EXCEPT ![r] = IdleTask]
        /\ UNCHANGED <<processVars, users, teams, teamMembers, registrations, standings, payments,
                       matches, questions, playerAnswers, tokenTransactions,
                       practiceSessions, liveVars, observedVars>>

\* POST /api/admin/questions
admin_createQuestion(r) ==
    LET t == httpReqs[r]
    IN  /\ t.pc = "handler"
        /\ t.route = "POST /api/admin/questions"
        /\ IF t.arg = "valid"
           THEN /\ questions' = MapSet(questions, NewId("q", questions),
                        [correctAnswer |-> "A", mode |-> "competition"])
                /\ httpRes' = Respond(t.route, t.session, 200)
           ELSE /\ UNCHANGED questions
                /\ httpRes' = Respond(t.route, t.session, 400)
        /\ httpReqs' = [httpReqs EXCEPT ![r] = IdleTask]
        /\ UNCHANGED <<processVars, users, teams, teamMembers, competitions, registrations,
                       standings, payments, matches, playerAnswers,
                       tokenTransactions, practiceSessions, liveVars, observedVars>>

\* storage.updateMatch(id, data): no row, no change
updateMatchStatus(table, m, status) ==
    IF m \in DOMAIN table THEN [table EXCEPT ![m].status = status] ELSE table

\* POST /api/admin/matches/:id/start:
\* await storage.updateMatch(matchId, { status: "live", startedAt })
start_updateMatch(r) ==
    LET t == httpReqs[r]
    IN  /\ t.pc = "handler"
        /\ t.route = "POST /api/admin/matches/:id/start"
        /\ matches' = updateMatchStatus(matches, t.arg, "live")
        /\ httpReqs' = [httpReqs EXCEPT ![r].pc = "setState"]
        /\ UNCHANGED <<processVars, users, teams, teamMembers, competitions, registrations,
                       standings, payments, questions, playerAnswers,
                       tokenTransactions, practiceSessions, liveVars, httpRes,
                       observedVars>>

\* matchStates.set(matchId, {...}); broadcastToMatch(match_state); res.json
start_setState(r) ==
    LET t == httpReqs[r]
    IN  /\ t.pc = "setState"
        /\ t.route = "POST /api/admin/matches/:id/start"
        /\ matchStates' = MapSet(matchStates, t.arg, StartedMatchState)
        /\ broadcastToMatch(t.arg,
               [type |-> "match_state", status |-> "live", currentQuestion |-> 0])
        /\ httpRes' = Respond(t.route, t.session, 200)
        /\ httpReqs' = [httpReqs EXCEPT ![r] = IdleTask]
        /\ UNCHANGED <<processVars, storageVars, matchRooms, readyState, handlers, lastReply,
                       everJoined>>

\* ------------------------------------------------- competition registration
\* a response that carries a message
RespondMessage(route, sess, status, message) ==
    [route |-> route, session |-> sess, status |-> status, message |-> message]

RegisterRoute == "POST /api/competitions/:id/register"

\* storage.isTeamRegistered(competitionId, teamId)
isTeamRegistered(c, t) ==
    \E i \in Rows(registrations) :
        registrations[i].competitionId = c /\ registrations[i].teamId = t

\* storage.getRegisteredTeams(competitionId)
getRegisteredTeams(c) == {i \in Rows(registrations) : registrations[i].competitionId = c}

\* storage.isTeamMember(teamId, userId)
isTeamMember(t, u) == <<t, u>> \in teamMembers

\* the standing the route creates for a newly registered team
NewStanding(c, t) ==
    [competitionId |-> c, teamId |-> t, played |-> 0, won |-> 0, drawn |-> 0,
     lost |-> 0, pointsFor |-> 0, pointsAgainst |-> 0, goalDifference |-> 0,
     leaguePoints |-> 0]

\* the request arrives and passes through requireAuth
register_request(r, sess, c, t) ==
    /\ httpReqs[r].pc = "idle"
    /\ IF requireAuth(sess) # 0
       THEN /\ httpRes' = RespondMessage(RegisterRoute, sess, 401, "Unauthorized")
            /\ UNCHANGED httpReqs
       ELSE /\ httpReqs' = [httpReqs EXCEPT ![r] =
                    [pc |-> "getCompetition", route |-> RegisterRoute,
                     session |-> sess, competitionId |-> c, teamId |-> t,
                     paymentId |-> 0]]
            /\ UNCHANGED httpRes
    /\ UNCHANGED <<processVars, storageVars, liveVars, observedVars>>

\* a handler that takes the payment first and runs its checks afterwards
RegisterCheck_ChargeFirst(r, failed, status, message, next) ==
    /\ IF failed
       THEN /\ httpRes' = RespondMessage(RegisterRoute, httpReqs[r].session, status,
                                         message)
            /\ httpReqs' = [httpReqs EXCEPT ![r] = IdleTask]
            /\ payments' = Append(payments,
                   [userId |-> httpReqs[r].session, teamId |-> httpReqs[r].teamId,
                    competitionId |-> httpReqs[r].competitionId, amount |-> 0,
                    type |-> "registration", status |-> "completed"])
       ELSE /\ httpReqs' = [httpReqs EXCEPT ![r].pc = next]
            /\ UNCHANGED <<httpRes, payments>>
    /\ UNCHANGED <<processVars, users, teams, teamMembers, competitions, registrations,
                   standings, matches, questions, playerAnswers,
                   tokenTransactions, practiceSessions, liveVars, observedVars>>

\* a step of the handler that answers with an error and ends it, or moves on
RegisterCheck(r, failed, status, message, next) ==
    /\ IF failed
       THEN /\ httpRes' = RespondMessage(RegisterRoute, httpReqs[r].session, status,
                                         message)
            /\ httpReqs' = [httpReqs EXCEPT ![r] = IdleTask]
       ELSE /\ httpReqs' = [httpReqs EXCEPT ![r].pc = next]
            /\ UNCHANGED httpRes
    /\ UNCHANGED <<processVars, storageVars, liveVars, observedVars>>

\* await storage.getCompetition(competitionId); the deadline check
register_getCompetition(r) ==
    LET t == httpReqs[r]
    IN  /\ t.pc = "getCompetition"
        /\ IF t.competitionId \notin DOMAIN competitions
           THEN RegisterCheck(r, TRUE, 404, "Competition not found", None)
           ELSE RegisterCheck(r, ~competitions[t.competitionId].open, 400,
                              "Registration deadline has passed", "isTeamRegistered")

\* await storage.isTeamRegistered(competitionId, teamId)
register_isTeamRegistered(r) ==
    LET t == httpReqs[r]
    IN  /\ t.pc = "isTeamRegistered"
        /\ RegisterCheck(r, isTeamRegistered(t.competitionId, t.teamId), 400,
                         "Team already registered", "getRegisteredTeams")

\* await storage.getRegisteredTeams(competitionId); the capacity check
register_getRegisteredTeams(r) ==
    LET t == httpReqs[r]
    IN  /\ t.pc = "getRegisteredTeams"
        /\ RegisterCheck(r,
               Cardinality(getRegisteredTeams(t.competitionId))
                   >= competitions[t.competitionId].maxTeams,
               400, "Competition is full", "isTeamMember")

\* await storage.isTeamMember(teamId, req.session.userId)
register_isTeamMember(r) ==
    LET t == httpReqs[r]
    IN  /\ t.pc = "isTeamMember"
        /\ RegisterCheck(r, ~isTeamMember(t.teamId, t.session), 403,
                         "You are not a member of this team", "createPayment")

\* await storage.createPayment({...})
register_createPayment(r) ==
    LET t == httpReqs[r]
    IN  /\ t.pc = "createPayment"
        /\ payments' = Append(payments,
               [userId |-> t.session, teamId |-> t.teamId,
                competitionId |-> t.competitionId,
                amount |-> competitions[t.competitionId].registrationFee,
                type |-> "registration", status |-> "completed"])
        /\ httpReqs' = [httpReqs EXCEPT ![r].pc = "registerTeam",
                                        ![r].paymentId = Len(payments) + 1]
        /\ UNCHANGED <<processVars, users, teams, teamMembers, competitions, registrations,
                       standings, matches, questions, playerAnswers,
                       tokenTransactions, practiceSessions, liveVars, httpRes,
                       observedVars>>

\* await storage.registerTeam({...})
register_registerTeam(r) ==
    LET t == httpReqs[r]
    IN  /\ t.pc = "registerTeam"
        /\ registrations' = Append(registrations,
               [competitionId |-> t.competitionId, teamId |-> t.teamId,
                paidBy |-> t.session, paymentId |-> t.paymentId])
        /\ httpReqs' = [httpReqs EXCEPT ![r].pc = "createStanding"]
        /\ UNCHANGED <<processVars, users, teams, teamMembers, competitions, standings, payments,
                       matches, questions, playerAnswers, tokenTransactions,
                       practiceSessions, liveVars, httpRes, observedVars>>

\* await storage.createStanding({...}); res.json(registration)
register_createStanding(r) ==
    LET t == httpReqs[r]
    IN  /\ t.pc = "createStanding"
        /\ standings' = Append(standings, NewStanding(t.competitionId, t.teamId))
        /\ httpRes' = RespondMessage(RegisterRoute, t.session, 200, None)
        /\ httpReqs' = [httpReqs EXCEPT ![r] = IdleTask]
        /\ UNCHANGED <<processVars, users, teams, teamMembers, competitions, registrations,
                       payments, matches, questions, playerAnswers,
                       tokenTransactions, practiceSessions, liveVars, observedVars>>

\* a storage call of the register handler throws (the connection is lost, a
\* query times out): the catch block answers 500 and the handler ends
register_storageFails(r) ==
    LET t == httpReqs[r]
    IN  /\ t.pc \in {"getCompetition", "isTeamRegistered", "getRegisteredTeams",
                     "isTeamMember", "createPayment", "registerTeam",
                     "createStanding"}
        /\ httpRes' = RespondMessage(RegisterRoute, t.session, 500,
                                     "Registration failed")
        /\ httpReqs' = [httpReqs EXCEPT ![r] = IdleTask]
        /\ UNCHANGED <<processVars, storageVars, liveVars, observedVars>>

\* time passes: new Date() is now later than the competition's
\* registrationDeadline
deadline_passes(c) ==
    /\ c \in DOMAIN competitions
    /\ competitions[c].open
    /\ competitions' = [competitions EXCEPT ![c].open = FALSE]
    /\ UNCHANGED <<processVars, users, teams, teamMembers, registrations, standings, payments,
                   matches, questions, playerAnswers, tokenTransactions,
                   practiceSessions, liveVars, httpReqs, httpRes, observedVars>>

\* ------------------------------------------------------- practice sessions
PracticeRoute == "POST /api/practice/start"

\* a teamId that storage holds no team for
UnknownTeam == "t0"

\* storage.updateTeam(id, { practiceTokens }): no row, no change
updateTeamTokens(table, t, tokens) ==
    IF t \in DOMAIN table THEN [table EXCEPT ![t].practiceTokens = tokens] ELSE table

\* the request arrives and passes through requireAuth
practice_request(r, sess, t) ==
    /\ httpReqs[r].pc = "idle"
    /\ IF requireAuth(sess) # 0
       THEN /\ httpRes' = RespondMessage(PracticeRoute, sess, 401, "Unauthorized")
            /\ UNCHANGED httpReqs
       ELSE /\ httpReqs' = [httpReqs EXCEPT ![r] =
                    [pc |-> "getTeam", route |-> PracticeRoute, session |-> sess,
                     teamId |-> t, practiceTokens |-> 0]]
            /\ UNCHANGED httpRes
    /\ UNCHANGED <<processVars, storageVars, liveVars, observedVars>>

\* const team = await storage.getTeam(teamId);
\* if (!team || team.practiceTokens < 1) return 400 "Insufficient tokens"
practice_getTeam(r) ==
    LET t == httpReqs[r]
    IN  /\ t.pc = "getTeam"
        /\ IF t.teamId \notin DOMAIN teams \/ teams[t.teamId].practiceTokens < 1
           THEN /\ httpRes' = RespondMessage(PracticeRoute, t.session, 400,
                                             "Insufficient tokens")
                /\ httpReqs' = [httpReqs EXCEPT ![r] = IdleTask]
           ELSE /\ httpReqs' = [httpReqs EXCEPT
                        ![r].pc = "updateTeam",
                        ![r].practiceTokens = teams[t.teamId].practiceTokens]
                /\ UNCHANGED httpRes
        /\ UNCHANGED <<processVars, storageVars, liveVars, observedVars>>

\* await storage.updateTeam(teamId, { practiceTokens: team.practiceTokens - 1 })
practice_updateTeam(r) ==
    LET t == httpReqs[r]
    IN  /\ t.pc = "updateTeam"
        /\ teams' = updateTeamTokens(teams, t.teamId, t.practiceTokens - 1)
        /\ httpReqs' = [httpReqs EXCEPT ![r].pc = "createTokenTransaction"]
        /\ UNCHANGED <<processVars, users, teamMembers, competitions, registrations, standings,
                       payments, matches, questions, playerAnswers,
                       tokenTransactions, practiceSessions, liveVars, httpRes,
                       observedVars>>

\* await storage.createTokenTransaction({ teamId, userId, amount: -1, type })
practice_createTokenTransaction(r) ==
    LET t == httpReqs[r]
    IN  /\ t.pc = "createTokenTransaction"
        /\ tokenTransactions' = Append(tokenTransactions,
               [teamId |-> t.teamId, userId |-> t.session, amount |-> -1,
                type |-> "practice"])
        /\ httpReqs' = [httpReqs EXCEPT ![r].pc = "createPracticeSession"]
        /\ UNCHANGED <<processVars, users, teams, teamMembers, competitions, registrations,
                       standings, payments, matches, questions, playerAnswers,
                       practiceSessions, liveVars, httpRes, observedVars>>

\* await storage.getQuestionsByMode("practice", 10);
\* await storage.createPracticeSession({ ..., status: "active" }); res.json
practice_createPracticeSession(r) ==
    LET t == httpReqs[r]
    IN  /\ t.pc = "createPracticeSession"
        /\ practiceSessions' = Append(practiceSessions,
               [teamId |-> t.teamId, userId |-> t.session, status |-> "active"])
        /\ httpRes' = RespondMessage(PracticeRoute, t.session, 200, None)
        /\ httpReqs' = [httpReqs EXCEPT ![r] = IdleTask]
        /\ UNCHANGED <<processVars, users, teams, teamMembers, competitions, registrations,
                       standings, payments, matches, questions, playerAnswers,
                       tokenTransactions, liveVars, observedVars>>

\* ---------------------------------------------------------- user accounts
\* the two implementations of IStorage
Backends == {"DatabaseStorage", "LocalStorageAdapter"}

AuthRegisterRoute == "POST /api/auth/register"

ProfileRoute == "PATCH /api/auth/profile"

\* storage.getUserByEmail(email)
getUserByEmail(email) == {u \in DOMAIN users : users[u].email = email}

\* storage.getUserByUsername(username)
getUserByUsername(username) == {u \in DOMAIN users : users[u].username = username}

\* the users table of PostgreSQL declares email and username unique: a write
\* that would give user id a value another row holds raises an error
UniqueViolation(id, email, username) ==
    \E u \in DOMAIN users \ {id} :
        users[u].email = email \/ users[u].username = username

\* whether storage.createUser / updateUser throws: DatabaseStorage passes the
\* constraint error on, LocalStorageAdapter writes into its record unchecked
StorageThrows(backend, id, email, username) ==
    backend = "DatabaseStorage" /\ UniqueViolation(id, email, username)

\* POST /api/auth/register arrives: insertUserSchema.parse(req.body)
auth_register_request(r, email, username, valid) ==
    /\ httpReqs[r].pc = "idle"
    /\ IF ~valid
       THEN /\ httpRes' = RespondMessage(AuthRegisterRoute, None, 400, "ZodError")
            /\ UNCHANGED httpReqs
       ELSE /\ httpReqs' = [httpReqs EXCEPT ![r] =
                    [pc |-> "getUserByEmail", route |-> AuthRegisterRoute,
                     session |-> None, email |-> email, username |-> username]]
            /\ UNCHANGED httpRes
    /\ UNCHANGED <<processVars, storageVars, liveVars, observedVars>>

\* a check of the handler that answers 400 and ends it, or moves on
AuthRegisterCheck(r, failed, message, next) ==
    /\ IF failed
       THEN /\ httpRes' = RespondMessage(AuthRegisterRoute, None, 400, message)
            /\ httpReqs' = [httpReqs EXCEPT ![r] = IdleTask]
       ELSE /\ httpReqs' = [httpReqs EXCEPT ![r].pc = next]
            /\ UNCHANGED httpRes
    /\ UNCHANGED <<processVars, storageVars, liveVars, observedVars>>

\* const existingEmail = await storage.getUserByEmail(data.email)
auth_register_getUserByEmail(r) ==
    LET t == httpReqs[r]
    IN  /\ t.pc = "getUserByEmail"
        /\ AuthRegisterCheck(r, getUserByEmail(t.email) # {},
                             "Email already registered", "getUserByUsername")

\* const existingUsername = await storage.getUserByUsername(data.username)
auth_register_getUserByUsername(r) ==
    LET t == httpReqs[r]
    IN  /\ t.pc = "getUserByUsername"
        /\ AuthRegisterCheck(r, getUserByUsername(t.username) # {},
                             "Username already taken", "hash")

\* const hashedPassword = await bcrypt.hash(data.password, 10)
auth_register_hash(r) ==
    /\ httpReqs[r].pc = "hash"
    /\ httpReqs' = [httpReqs EXCEPT ![r].pc = "createUser"]
    /\ UNCHANGED <<processVars, storageVars, liveVars, httpRes, observedVars>>

\* const user = await storage.createUser({...}); req.session.userId = user.id;
\* an error of storage is caught and answered 500
auth_register_createUser(r, backend) ==
    LET t == httpReqs[r]
        id == NewId("u", users)
    IN  /\ t.pc = "createUser"
        /\ IF StorageThrows(backend, id, t.email, t.username)
           THEN /\ UNCHANGED users
                /\ httpRes' = RespondMessage(AuthRegisterRoute, None, 500,
                                             "Registration failed")
           ELSE /\ users' = MapSet(users, id,
                        [role |-> "user", email |-> t.email, username |-> t.username])
                /\ httpRes' = RespondMessage(AuthRegisterRoute, id, 200, None)
        /\ httpReqs' = [httpReqs EXCEPT ![r] = IdleTask]
        /\ UNCHANGED <<processVars, teams, teamMembers, competitions, registrations, standings,
                       payments, matches, questions, playerAnswers,
                       tokenTransactions, practiceSessions, liveVars, observedVars>>

\* storage.updateUser(id, { username, email }): no row, no change
updateUser(table, id, email, username) ==
    IF id \in DOMAIN table
    THEN [table EXCEPT ![id].email = email, ![id].username = username]
    ELSE table

\* PATCH /api/auth/profile: requireAuth, then
\* await storage.updateUser(req.session.userId, { username, email }); res.json
auth_profile(sess, email, username, backend) ==
    /\ IF requireAuth(sess) # 0
       THEN /\ httpRes' = RespondMessage(ProfileRoute, sess, 401, "Unauthorized")
            /\ UNCHANGED users
       ELSE IF StorageThrows(backend, sess, email, username)
       THEN /\ httpRes' = RespondMessage(ProfileRoute, sess, 500, "Update failed")
            /\ UNCHANGED users
       ELSE /\ users' = updateUser(users, sess, email, username)
            /\ httpRes' = RespondMessage(ProfileRoute, sess, 200, None)
    /\ UNCHANGED <<processVars, teams, teamMembers, competitions, registrations, standings,
                   payments, matches, questions, playerAnswers, tokenTransactions,
                   practiceSessions, liveVars, httpReqs, observedVars>>

\* ----------------------------------------------------------- token purchase
\* money is counted in whole currency units: every price of the dialog and
\* every product of the server is a whole number of them
TokensRoute == "POST /api/payments/tokens"

\* payments.tsx: const TOKEN_PRICE = 2.00
TOKEN_PRICE == 2

\* payments.tsx: const TOKEN_PACKAGES = [{ amount, price, savings }, ...]
TOKEN_PACKAGES ==
    <<[amount |-> 5, price |-> 10], [amount |-> 10, price |-> 18],
      [amount |-> 25, price |-> 40], [amount |-> 50, price |-> 75]>>

\* BuyTokensDialog: selectedPackage ? selectedPackage.price
\*                                  : tokenAmount * TOKEN_PRICE,
\* the number on the Pay button
DialogPrice(tokenAmount) ==
    LET found == {i \in DOMAIN TOKEN_PACKAGES : TOKEN_PACKAGES[i].amount = tokenAmount}
    IN  IF found # {}
        THEN TOKEN_PACKAGES[CHOOSE i \in found : \A j \in found : i <= j].price
        ELSE tokenAmount * TOKEN_PRICE

\* routes.ts: const tokenPrice = 2.00
tokenPrice == 2

\* routes.ts: const totalPrice = amount * tokenPrice
totalPrice(amount) == amount * tokenPrice

\* the dialog's mutation: POST /api/payments/tokens { teamId, amount:
\* tokenAmount } while the Pay button shows DialogPrice(tokenAmount);
\* the request passes through requireAuth
tokens_request(r, sess, t, tokenAmount) ==
    /\ httpReqs[r].pc = "idle"
    /\ IF requireAuth(sess) # 0
       THEN /\ httpRes' = RespondMessage(TokensRoute, sess, 401, "Unauthorized")
            /\ UNCHANGED httpReqs
       ELSE /\ httpReqs' = [httpReqs EXCEPT ![r] =
                    [pc |-> "createPayment", route |-> TokensRoute, session |-> sess,
                     teamId |-> t, amount |-> tokenAmount,
                     shown |-> DialogPrice(tokenAmount), paymentId |-> 0,
                     practiceTokens |-> 0]]
            /\ UNCHANGED httpRes
    /\ UNCHANGED <<processVars, storageVars, liveVars, observedVars>>

\* const payment = await storage.createPayment({ ..., amount: totalPrice,
\* type: "tokens", status: "completed" })
tokens_createPayment(r) ==
    LET t == httpReqs[r]
    IN  /\ t.pc = "createPayment"
        /\ t.route = TokensRoute
        /\ payments' = Append(payments,
               [userId |-> t.session, teamId |-> t.teamId, competitionId |-> None,
                amount |-> totalPrice(t.amount), type |-> "tokens",
                status |-> "completed"])
        /\ httpReqs' = [httpReqs EXCEPT ![r].pc = "getTeam",
                                        ![r].paymentId = Len(payments) + 1]
        /\ UNCHANGED <<processVars, users, teams, teamMembers, competitions, registrations,
                       standings, matches, questions, playerAnswers,
                       tokenTransactions, practiceSessions, liveVars, httpRes,
                       observedVars>>

\* const team = await storage.getTeam(teamId); if (team) {...}; without the
\* team the handler goes straight to res.json(payment)
tokens_getTeam(r) ==
    LET t == httpReqs[r]
    IN  /\ t.pc = "getTeam"
        /\ t.route = TokensRoute
        /\ IF t.teamId \notin DOMAIN teams
           THEN /\ httpRes' = RespondMessage(TokensRoute, t.session, 200, None)
                /\ httpReqs' = [httpReqs EXCEPT ![r] = IdleTask]
           ELSE /\ httpReqs' = [httpReqs EXCEPT
                        ![r].pc = "updateTeam",
                        ![r].practiceTokens = teams[t.teamId].practiceTokens]
                /\ UNCHANGED httpRes
        /\ UNCHANGED <<processVars, storageVars, liveVars, observedVars>>

\* await storage.updateTeam(teamId, { practiceTokens: team.practiceTokens + amount })
tokens_updateTeam(r) ==
    LET t == httpReqs[r]
    IN  /\ t.pc = "updateTeam"
        /\ t.route = TokensRoute
        /\ teams' = updateTeamTokens(teams, t.teamId, t.practiceTokens + t.amount)
        /\ httpReqs' = [httpReqs EXCEPT ![r].pc = "createTokenTransaction"]
        /\ UNCHANGED <<processVars, users, teamMembers, competitions, registrations, standings,
                       payments, matches, questions, playerAnswers,
                       tokenTransactions, practiceSessions, liveVars, httpRes,
                       observedVars>>

\* await storage.createTokenTransaction({ teamId, userId, amount,
\* type: "purchase", paymentId: payment.id }); res.json(payment)
tokens_createTokenTransaction(r) ==
    LET t == httpReqs[r]
    IN  /\ t.pc = "createTokenTransaction"
        /\ t.route = TokensRoute
        /\ tokenTransactions' = Append(tokenTransactions,
               [teamId |-> t.teamId, userId |-> t.session, amount |-> t.amount,
                type |-> "purchase", paymentId |-> t.paymentId])
        /\ httpRes' = RespondMessage(TokensRoute, t.session, 200, None)
        /\ httpReqs' = [httpReqs EXCEPT ![r] = IdleTask]
        /\ UNCHANGED <<processVars, users, teams, teamMembers, competitions, registrations,
                       standings, payments, matches, questions, playerAnswers,
                       practiceSessions, liveVars, observedVars>>

\* ---------------------------------------------------------- specifications
\* submit_answer messages are accepted while the answers table has room
AnswersInFlight == Cardinality({h \in Handlers : handlers[h].pc = "submitAnswer"})

RoomForAnswer == Len(playerAnswers) + AnswersInFlight < MaxAnswers

\* Rooms: connections, joins and closes of every socket over both matches,
\* with the two broadcasters: starts of match m2 and the score update of one
\* answer to match m1 (the two handlers do not overlap here; sockets connect,
\* join and close at every step of either)
NextRooms ==
    \/ \E s \in Sockets : wss_connection(s)
    \/ \E s \in Sockets : ws_closing(s)
    \/ \E s \in Sockets : ws_close(s)
    \/ \E s \in Sockets, m \in MatchIds : join_match(s, m)
    \/ \E s \in Sockets :
          /\ playerAnswers = <<>>
          /\ httpReqs[1].pc = "idle"
          /\ submit_answer(1, s, "m1", "u1", "q1", "A", "t1")
    \/ submit_storeAnswer(1)
    \/ submit_countScores(1)
    \/ submit_updateMatch(1)
    \/ submit_setState(1)
    \/ submit_broadcast(1)
    \/ /\ handlers[1].pc = "idle"
       /\ admin_request(1, "POST /api/admin/matches/:id/start", "admin", "m2")
    \/ start_updateMatch(1)
    \/ start_setState(1)

SpecRooms == Init /\ [][NextRooms]_vars

\* the session of the browser that opened each socket: the upgrade request of
\* socket 1 carries u1's session cookie, the other sockets carry none
SocketSession(s) == IF s = 1 THEN "u1" ELSE None

\* the userId and teamId a submit_answer message may name: the sender with the
\* sender's team, another user with that user's team, another user with a team
\* that does not play in the match
AnswerSenders == {<<"u1", "t1">>, <<"u2", "t2">>, <<"u2", "t3">>}

\* Scoring: concurrent submit_answer handlers and match starts on match m1,
\* watched by one joined socket
NextScore ==
    \/ wss_connection(1)
    \/ join_match(1, "m1")
    \/ \E h \in Handlers, ut \in AnswerSenders,
          q \in QuestionIds \cup {UnknownQuestion}, a \in Answers :
          RoomForAnswer /\ submit_answer(h, 1, "m1", ut[1], q, a, ut[2])
    \/ \E h \in Handlers : submit_storeAnswer(h)
    \/ \E h \in Handlers : submit_countScores(h)
    \/ \E h \in Handlers : submit_updateMatch(h)
    \/ \E h \in Handlers : submit_setState(h)
    \/ \E h \in Handlers : submit_broadcast(h)
    \/ admin_request(1, "POST /api/admin/matches/:id/start", "admin", "m1")
    \/ start_updateMatch(1)
    \/ start_setState(1)

SpecScore == Init /\ [][NextScore]_vars

\* the bodies a practice start may carry: a team with tokens, a team without,
\* a team that does not exist
PracticeTeams == {"t1", "t2", UnknownTeam}

\* Practice: concurrent POST /api/practice/start requests
NextPractice ==
    \/ \E r \in Requests, sess \in {None, "u1"}, t \in PracticeTeams :
          practice_request(r, sess, t)
    \/ \E r \in Requests : practice_getTeam(r)
    \/ \E r \in Requests : practice_updateTeam(r)
    \/ \E r \in Requests : practice_createTokenTransaction(r)
    \/ \E r \in Requests : practice_createPracticeSession(r)

SpecPractice == Init /\ [][NextPractice]_vars

\* the session and team of a registration request: the members of the two
\* teams of match m1, a user that is not a member, a request without session
Registrants == {<<"u1", "t1">>, <<"u2", "t2">>, <<"u1", "t2">>, <<None, "t1">>}

\* the continuation of a submit_answer handler after one of its awaits
SubmitStep(h) ==
    \/ submit_storeAnswer(h)
    \/ submit_countScores(h)
    \/ submit_updateMatch(h)
    \/ submit_setState(h)
    \/ submit_broadcast(h)

\* the continuation of a registration handler after one of its awaits
RegisterStep(r) ==
    \/ register_getCompetition(r)
    \/ register_isTeamRegistered(r)
    \/ register_getRegisteredTeams(r)
    \/ register_isTeamMember(r)
    \/ register_createPayment(r)
    \/ register_registerTeam(r)
    \/ register_createStanding(r)

\* the continuation of a start handler after one of its awaits
StartStep(r) == start_updateMatch(r) \/ start_setState(r)

\* Season: teams register for the competition, the admin starts match m1,
\* a player joins it and answers
NextSeason ==
    \/ wss_connection(1)
    \/ join_match(1, "m1")
    \/ playerAnswers = <<>> /\ submit_answer(1, 1, "m1", "u1", "q1", "A", "t1")
    \/ SubmitStep(1)
    \/ \E reg \in Registrants : register_request(1, reg[1], "c1", reg[2])
    \/ RegisterStep(1)
    \/ admin_request(2, "POST /api/admin/matches/:id/start", "admin", "m1")
    \/ StartStep(2)

\* Node runs the continuation of every handler whose awaited storage call has
\* resolved, and storage calls resolve; clients and the admin keep sending
SpecSeason ==
    /\ Init
    /\ [][NextSeason]_vars
    /\ WF_vars(SubmitStep(1))
    /\ WF_vars(RegisterStep(1))
    /\ WF_vars(StartStep(2))
    /\ WF_vars(NextSeason)

\* the emails and usernames a request may carry: those of the seeded user u1
\* and fresh ones
RequestEmails == {InitialEmail("u1"), "new@mail"}

RequestUsernames == {InitialUsername("u1"), "newname"}

\* Accounts: concurrent sign-ups and profile updates on one storage backend;
\* sign-ups are accepted while the users table has room
NextAccounts(backend) ==
    \/ \E r \in Requests, e \in RequestEmails, n \in RequestUsernames, valid \in BOOLEAN :
          /\ Cardinality(DOMAIN users)
                 + Cardinality({q \in Requests : httpReqs[q].pc # "idle"})
                 < Cardinality(UserIds) + MaxUsers
          /\ auth_register_request(r, e, n, valid)
    \/ \E r \in Requests : auth_register_getUserByEmail(r)
    \/ \E r \in Requests : auth_register_getUserByUsername(r)
    \/ \E r \in Requests : auth_register_hash(r)
    \/ \E r \in Requests : auth_register_createUser(r, backend)
    \/ \E sess \in {None, "u2"}, e \in RequestEmails, n \in RequestUsernames :
          auth_profile(sess, e, n, backend)

SpecAccountsLocal == Init /\ [][NextAccounts("LocalStorageAdapter")]_vars

SpecAccountsDatabase == Init /\ [][NextAccounts("DatabaseStorage")]_vars

\* a competition id that storage holds no competition for
UnknownCompetition == "c0"

\* the session, competition and team of the registration requests: the
\* logged-in Registrants for competition c1, a member of one team asking for a
\* third team, and a request for a competition that does not exist
RegistrationBodies ==
    {<<reg[1], "c1", reg[2]>> : reg \in {x \in Registrants : x[1] # None}}
        \cup {<<"u1", "c1", "t3">>, <<"u1", UnknownCompetition, "t1">>}

\* Registration: concurrent POST /api/competitions/:id/register requests and
\* the deadline passing; requests are accepted while the payments table has
\* room for those in flight
NextRegistration ==
    \/ \E r \in Requests, body \in RegistrationBodies :
          /\ Len(payments) + Cardinality({q \in Requests : httpReqs[q].pc # "idle"})
                 <= MaxPayments
          /\ register_request(r, body[1], body[2], body[3])
    \/ \E r \in Requests : RegisterStep(r)
    \/ \E c \in CompetitionIds : deadline_passes(c)

SpecRegistration == Init /\ [][NextRegistration]_vars

\* Registration over a storage whose calls may fail
NextRegistrationFaulty ==
    \/ NextRegistration
    \/ \E r \in Requests : register_storageFails(r)

SpecRegistrationFaulty == Init /\ [][NextRegistrationFaulty]_vars

\* the quantities the Buy Tokens dialog can send: the amounts of its packages
\* and custom quantities typed into its field
CustomQuantities == {1, 7}

DialogQuantities ==
    {TOKEN_PACKAGES[i].amount : i \in DOMAIN TOKEN_PACKAGES} \cup CustomQuantities

\* Tokens: concurrent token purchases from the dialog, for a team that exists
\* and for a teamId that storage holds no team for; purchases are accepted
\* while the payments table has room for those in flight
NextTokens ==
    \/ \E r \in Requests, sess \in {None, "u1"}, t \in {"t1", UnknownTeam},
          n \in DialogQuantities :
          /\ Len(payments) + Cardinality({q \in Requests : httpReqs[q].pc # "idle"})
                 < MaxPayments
          /\ tokens_request(r, sess, t, n)
    \/ \E r \in Requests : tokens_createPayment(r)
    \/ \E r \in Requests : tokens_getTeam(r)
    \/ \E r \in Requests : tokens_updateTeam(r)
    \/ \E r \in Requests : tokens_createTokenTransaction(r)

SpecTokens == Init /\ [][NextTokens]_vars

\* the environments the server may be started in
Environments ==
    [DATABASE_URL : {Undefined, "", "postgresql://localhost:5432/quiz"},
     NODE_ENV : {Undefined, "development", "production"}]

\* the process before its modules are loaded
InitStartup ==
    /\ InitData
    /\ env \in Environments
    /\ storage = Unstarted

\* node loads db.ts and storage.ts
server_start ==
    /\ storage = Unstarted
    /\ storage' = SelectStorage(env)
    /\ UNCHANGED <<env, storageVars, liveVars, httpReqs, httpRes, observedVars>>

\* Startup: the server starts in any environment and, once it runs, serves
\* the account routes on the storage it selected
NextStartup ==
    \/ server_start
    \/ storage \in Backends /\ NextAccounts(storage)

SpecStartup == InitStartup /\ [][NextStartup]_vars

\* the sessions a request may carry: none, a regular user, the admin, and a
\* user that storage does not hold
Sessions == {None, "u1", "admin", MissingUser}

\* rows a create route has added or is about to add
Creating(route) ==
    Cardinality({r \in Requests : httpReqs[r].pc = "handler" /\ httpReqs[r].route = route})

\* Admin: every /api/admin route under every kind of session, with a socket
\* in match m1's room to hear the start broadcast
NextAdmin ==
    \/ wss_connection(1)
    \/ join_match(1, "m1")
    \/ \E sess \in Sessions : admin_request(1, "GET /api/admin", sess, None)
    \/ \E sess \in Sessions, body \in {"valid", "invalid"} :
          /\ Cardinality(DOMAIN competitions) + Creating("POST /api/admin/competitions")
                < Cardinality(CompetitionIds) + MaxCreated
          /\ admin_request(1, "POST /api/admin/competitions", sess, body)
    \/ \E sess \in Sessions, body \in {"valid", "invalid"} :
          /\ Cardinality(DOMAIN questions) + Creating("POST /api/admin/questions")
                < Cardinality(QuestionIds) + MaxCreated
          /\ admin_request(1, "POST /api/admin/questions", sess, body)
    \/ \E sess \in Sessions :
          admin_request(1, "POST /api/admin/matches/:id/start", sess, "m1")
    \/ admin_getAdminData(1)
    \/ admin_createCompetition(1)
    \/ admin_createQuestion(1)
    \/ start_updateMatch(1)
    \/ start_setState(1)

SpecAdmin == Init /\ [][NextAdmin]_vars

\* -------------------------------------------------------------- dashboard
DashboardRoute == "GET /api/dashboard"

\* matches.scheduledAt: set by createMatch and written by no route afterwards;
\* the second match of the schedule is played first
scheduledAt == [m \in MatchIds |-> IF m = "m2" THEN 1 ELSE 2]

\* .limit(10) / .slice(0, 10)
DashboardLimit == 10

\* getTeamsByUser(userId).map(t => t.id): the teams whose members include userId
getTeamsByUser(userId) == {t \in DOMAIN teams : <<t, userId>> \in teamMembers}

\* .orderBy(matches.scheduledAt) / .sort by scheduledAt, ascending
RECURSIVE orderByScheduledAt(_)
orderByScheduledAt(S) ==
    IF S = {} THEN <<>>
    ELSE LET first == CHOOSE m \in S : \A o \in S : scheduledAt[m] <= scheduledAt[o]
         IN  <<first>> \o orderByScheduledAt(S \ {first})

\* .limit(n) / .slice(0, n)
limit(seq, n) == SubSeq(seq, 1, IF Len(seq) < n THEN Len(seq) ELSE n)

\* DatabaseStorage.getDashboardData: the matches whose home or away team is
\* one of the user's teams, ordered by scheduledAt, the first 10
DatabaseUpcomingMatches(userId) ==
    LET teamIds == getTeamsByUser(userId)
    IN  IF teamIds = {} THEN <<>>
        ELSE limit(orderByScheduledAt(
                       {m \in DOMAIN matches :
                            \/ matches[m].homeTeamId \in teamIds
                            \/ matches[m].awayTeamId \in teamIds}),
                   DashboardLimit)

\* LocalStorageAdapter.getDashboardData: the matches of the user's teams that
\* are still waiting, sorted by scheduledAt, the first 10
LocalUpcomingMatches(userId) ==
    LET teamIds == getTeamsByUser(userId)
    IN  IF teamIds = {} THEN <<>>
        ELSE limit(orderByScheduledAt(
                       {m \in DOMAIN matches :
                            /\ \/ matches[m].homeTeamId \in teamIds
                               \/ matches[m].awayTeamId \in teamIds
                            /\ matches[m].status = "waiting"}),
                   DashboardLimit)

\* storage.getDashboardData(userId).upcomingMatches of either implementation
upcomingMatches(backend, userId) ==
    IF backend = "DatabaseStorage" THEN DatabaseUpcomingMatches(userId)
    ELSE LocalUpcomingMatches(userId)

\* GET /api/dashboard arrives and passes through requireAuth
dashboard_request(r, sess) ==
    /\ httpReqs[r].pc = "idle"
    /\ LET guard == requireAuth(sess)
       IN  IF guard # 0
           THEN /\ httpRes' = Respond(DashboardRoute, sess, guard)
                /\ UNCHANGED httpReqs
           ELSE /\ httpReqs' = [httpReqs EXCEPT ![r] =
                        [pc |-> "handler", route |-> DashboardRoute, session |-> sess]]
                /\ UNCHANGED httpRes
    /\ UNCHANGED <<processVars, storageVars, liveVars, observedVars>>

\* const data = await storage.getDashboardData(req.session.userId!); res.json(data)
dashboard_getDashboardData(r, backend) ==
    LET t == httpReqs[r]
    IN  /\ t.pc = "handler"
        /\ t.route = DashboardRoute
        /\ httpRes' = [route |-> DashboardRoute, session |-> t.session, status |-> 200,
                       backend |-> backend,
                       upcomingMatches |-> upcomingMatches(backend, t.session)]
        /\ httpReqs' = [httpReqs EXCEPT ![r] = IdleTask]
        /\ UNCHANGED <<processVars, storageVars, liveVars, observedVars>>

\* Dashboard: the admin starts the matches of the schedule while players, the
\* admin and a visitor without a session load their dashboards from a server
\* on either storage implementation
NextDashboard ==
    \/ \E m \in MatchIds :
          admin_request(1, "POST /api/admin/matches/:id/start", "admin", m)
    \/ start_updateMatch(1)
    \/ start_setState(1)
    \/ \E sess \in {None} \cup UserIds : dashboard_request(2, sess)
    \/ \E backend \in Backends : dashboard_getDashboardData(2, backend)

SpecDashboard == Init /\ [][NextDashboard]_vars

\* ------------------------------------------------------------------ claims
\* the sockets that sent join_match for m and are open
JoinedAndOpen(m) == {s \in Sockets : m \in everJoined[s] /\ readyState[s] = "OPEN"}

\* a step that broadcasts for match m: the score update of an answer to m, or
\* the match_state of a start of m
BroadcastStep(m) ==
    \/ \E h \in Handlers : submit_broadcast(h) /\ handlers[h].matchId = m
    \/ \E r \in Requests : start_setState(r) /\ httpReqs[r].arg = m

\* C2: every score_update or match_state broadcast for match M goes to exactly
\* the sockets that have joined M and are open: to each of them, to no socket
\* that never joined M, and so to no socket that joined only another match.
C2_RoomFanOut ==
    [][\A m \in MatchIds :
          BroadcastStep(m) =>
              /\ lastBroadcast'.matchId = m
              /\ lastBroadcast'.to = JoinedAndOpen(m)]_vars

\* C2 witness: a score update reached a joined socket while an open socket that
\* joined only the other match was left out
C2_Witness ==
    /\ lastBroadcast.msg.type = "score_update"
    /\ lastBroadcast.to # {}
    /\ \E s \in Sockets \ lastBroadcast.to :
          readyState[s] = "OPEN" /\ everJoined[s] = {"m2"}

RoomOf(rooms, m) == MapGet(rooms, m, {})

\* C3: after a socket's close event the socket is in no room and every other
\* socket's membership is as before; no room of matchRooms is ever empty.
C3_CloseCleanup ==
    /\ [](\A m \in DOMAIN matchRooms : matchRooms[m] # {})
    /\ [][\A s \in Sockets :
             (readyState[s] # "CLOSED" /\ readyState'[s] = "CLOSED") =>
                 \A m \in MatchIds :
                     RoomOf(matchRooms', m) = RoomOf(matchRooms, m) \ {s}]_vars

\* C3 witness: a socket that had joined m1 is closed and m1's room is gone,
\* while another socket is still in m2's room
C3_Witness ==
    \E s \in Sockets :
        /\ readyState[s] = "CLOSED"
        /\ "m1" \in everJoined[s]
        /\ "m1" \notin DOMAIN matchRooms
        /\ \E s2 \in Sockets \ {s} : s2 \in RoomOf(matchRooms, "m2")

\* a session that requireAdmin must refuse
NotAdmin(sess) == sess = None \/ sess \notin DOMAIN users \/ users[sess].role # "admin"

\* C9: an /api/admin request whose session has no user is answered 401, one
\* whose user is missing or not an admin 403; the refusal changes nothing in
\* storage, matchStates or the rooms and broadcasts nothing, and no admin
\* handler ever runs for such a session.
C9_AdminOnly ==
    /\ [](\A r \in Requests :
             (httpReqs[r].pc # "idle" /\ httpReqs[r].route \in AdminRoutes)
                 => ~NotAdmin(httpReqs[r].session))
    /\ [][(httpRes' # httpRes /\ httpRes'.route \in AdminRoutes
              /\ NotAdmin(httpRes'.session)) =>
             /\ httpRes'.status = (IF httpRes'.session = None THEN 401 ELSE 403)
             /\ UNCHANGED <<processVars, storageVars, matchStates, matchRooms, lastBroadcast>>]_vars

\* C9 witness: a regular user asked to start the match and was answered 403,
\* after the admin had started it and created a competition
C9_Witness ==
    /\ httpRes = Respond("POST /api/admin/matches/:id/start", "u1", 403)
    /\ matches["m1"].status = "live"
    /\ Cardinality(DOMAIN competitions) > Cardinality(CompetitionIds)

\* every handler and request has run to its end
Quiescent ==
    /\ \A h \in Handlers : handlers[h].pc = "idle"
    /\ \A r \in Requests : httpReqs[r].pc = "idle"

\* C1: once every submit_answer handler has finished, a match's persisted
\* homeScore is the number of its stored correct answers with teamId =
\* homeTeamId, and awayScore the same for awayTeamId.
C1_ScoresAreAggregate ==
    Quiescent =>
        \A m \in MatchIds :
            /\ matches[m].homeScore =
                   TeamScore(AnswersByMatch(m), matches[m].homeTeamId)
            /\ matches[m].awayScore =
                   TeamScore(AnswersByMatch(m), matches[m].awayTeamId)

\* C4: the match_state sent on join_match (with no handler in flight) carries
\* the match's status and scores as storage holds them.
C4_JoinStateIsPersisted ==
    [][\A s \in Sockets, m \in MatchIds :
          (Quiescent /\ join_match(s, m)) =>
              /\ lastReply'.msg.status = matches[m].status
              /\ lastReply'.msg.homeScore = matches[m].homeScore
              /\ lastReply'.msg.awayScore = matches[m].awayScore]_vars

StatusRank(status) ==
    CASE status = "waiting" -> 0 [] status = "live" -> 1 [] status = "completed" -> 2

\* the scores of match m the server holds in memory, 0 when it holds none
MemoryScore(states, m) ==
    IF m \in DOMAIN states THEN states[m].homeScore + states[m].awayScore ELSE 0

\* C5: a match's status only moves forward, the start route sets live only
\* for a waiting match, and a started match's scores are never reset.
C5_StatusForwardOnly ==
    [][\A m \in MatchIds :
          /\ StatusRank(matches'[m].status) >= StatusRank(matches[m].status)
          /\ (\E r \in Requests : start_updateMatch(r) /\ httpReqs[r].arg = m)
                 => matches[m].status = "waiting"
          /\ (matches[m].status # "waiting" /\ MemoryScore(matchStates, m) > 0)
                 => MemoryScore(matchStates', m) > 0]_vars

\* C10: an answer is stored under userId U and teamId T only when the socket
\* it came from belongs to the authenticated user U, U is a member of T, and T
\* is the home or away team of the match.
C10_AnswersAuthenticated ==
    [][\A h \in Handlers :
          submit_storeAnswer(h) =>
              /\ handlers[h].userId = SocketSession(handlers[h].ws)
              /\ <<handlers[h].teamId, handlers[h].userId>> \in teamMembers
              /\ handlers[h].teamId \in {handlers[h].homeTeamId,
                                         handlers[h].awayTeamId}]_vars

\* -------------------------------------------------------------------------
\* C6: once a match is live the server takes it through its questions and the
\* match eventually reaches status completed
C6_QuestionProgression ==
    \A m \in MatchIds :
        (matches[m].status = "live") ~> (matches[m].status = "completed")

\* what the server does instead: no step writes status completed, and the
\* currentQuestion of every match state stays 0
ServerNeverAdvances ==
    \A m \in MatchIds :
        /\ matches[m].status # "completed"
        /\ MapGet(matchStates, m, DefaultMatchState).currentQuestion = 0
        /\ MapGet(matchStates, m, DefaultMatchState).status # "completed"

\* -------------------------------------------------------------------------
\* the standings rows of a team in a competition
StandingsOf(c, t) ==
    {i \in Rows(standings) : standings[i].competitionId = c /\ standings[i].teamId = t}

\* both teams of the match are registered with a standing, and the match has
\* been started
PlayedByRegistered(m) ==
    /\ matches[m].status \in {"live", "completed"}
    /\ \A t \in {matches[m].homeTeamId, matches[m].awayTeamId} :
          StandingsOf(matches[m].competitionId, t) # {}

\* the standing counts a match: played = won + drawn + lost, at least one
Counted(row) ==
    /\ row.played >= 1
    /\ row.played = row.won + row.drawn + row.lost

\* C7: once a match between two registered teams has been played, the standing
\* of each of the two teams counts it; standings do not stay at their zeros
C7_StandingsRecomputed ==
    \A m \in MatchIds :
        PlayedByRegistered(m) ~>
            (\A t \in {matches[m].homeTeamId, matches[m].awayTeamId} :
                \E i \in StandingsOf(matches[m].competitionId, t) :
                    Counted(standings[i]))

\* what the server does instead: every standing stays as it was created
StandingsStayZero ==
    \A i \in Rows(standings) :
        standings[i] = NewStanding(standings[i].competitionId, standings[i].teamId)

\* -------------------------------------------------------------------------
PracticeInFlight == \E r \in Requests : httpReqs[r].pc # "idle"

ActiveSessionsOf(t) ==
    Cardinality({i \in Rows(practiceSessions) :
        practiceSessions[i].teamId = t /\ practiceSessions[i].status = "active"})

TokensSpentBy(t) ==
    Cardinality({i \in Rows(tokenTransactions) :
        tokenTransactions[i].teamId = t /\ tokenTransactions[i].amount = -1})

TokensOf(t) == IF t \in DOMAIN teams THEN teams[t].practiceTokens ELSE 0

\* a practice start for a missing team or a team without tokens answers 400
\* 'Insufficient tokens' and changes nothing
RejectedStartChangesNothing ==
    [][\A r \in Requests :
          (/\ practice_getTeam(r)
           /\ TokensOf(httpReqs[r].teamId) < 1)
          => /\ httpRes'.status = 400
             /\ httpRes'.message = "Insufficient tokens"
             /\ UNCHANGED storageVars]_vars

\* once the requests have been answered, every team has paid one token for
\* each of its sessions, with one transaction of -1 for each
EverySessionCostsOneToken ==
    ~PracticeInFlight =>
        \A t \in PracticeTeams :
            /\ InitialTokens(t) - TokensOf(t) = ActiveSessionsOf(t)
            /\ TokensSpentBy(t) = ActiveSessionsOf(t)

\* C8: a practice start for a team that is missing or has less than 1 token
\* answers 400 'Insufficient tokens' and changes nothing; a successful start
\* takes exactly 1 token from the team, records one transaction of -1 and
\* creates one active session
C8_PracticeTokensGate == RejectedStartChangesNothing /\ []EverySessionCostsOneToken

\* -------------------------------------------------------------------------
\* C11: whatever sign-ups and profile updates have run, no two stored users
\* share an email and no two stored users share a username
C11_UniqueEmailAndUsername ==
    \A u, v \in DOMAIN users :
        u # v => /\ users[u].email # users[v].email
                 /\ users[u].username # users[v].username

\* -------------------------------------------------------------------------
\* C12: whatever registration requests have run, no competition has two
\* registrations, or two standings, for the same team
C12_RegisteredAtMostOnce ==
    /\ \A i, j \in Rows(registrations) :
          (/\ registrations[i].competitionId = registrations[j].competitionId
           /\ registrations[i].teamId = registrations[j].teamId) => i = j
    /\ \A i, j \in Rows(standings) :
          (/\ standings[i].competitionId = standings[j].competitionId
           /\ standings[i].teamId = standings[j].teamId) => i = j

\* -------------------------------------------------------------------------
\* the statuses the register route rejects a request with
RegisterRejections == {400, 403, 404}

\* request r ends in this step with a rejection
RegisterRejected(r) ==
    /\ httpReqs[r].pc # "idle"
    /\ httpReqs[r].route = RegisterRoute
    /\ httpReqs'[r].pc = "idle"
    /\ httpRes'.status \in RegisterRejections

\* C13: a registration request that is answered 404, 400 or 403 creates no
\* payment, no registration and no standing, neither in the step that rejects
\* it nor before
C13_RejectedRegistrationNoEffect ==
    [][\A r \in Requests :
          RegisterRejected(r) =>
              /\ UNCHANGED <<payments, registrations, standings>>
              /\ httpReqs[r].paymentId = 0]_vars

\* a request is rejected as not a member, or because the competition is full,
\* after other registrations went through
C13_Witness ==
    /\ httpRes.route = RegisterRoute
    /\ httpRes.status \in {400, 403}
    /\ httpRes.message \in {"Competition is full", "You are not a member of this team"}
    /\ Len(payments) > 0
    /\ \A r \in Requests : httpReqs[r].pc = "idle"

\* -------------------------------------------------------------------------
RegisterInFlight == \E r \in Requests : httpReqs[r].pc # "idle"

\* the registration's payment: completed, of type registration, for the fee
PaidRegistration(reg) ==
    /\ reg.paymentId \in Rows(payments)
    /\ payments[reg.paymentId].status = "completed"
    /\ payments[reg.paymentId].type = "registration"
    /\ payments[reg.paymentId].amount = competitions[reg.competitionId].registrationFee

\* C14: registration is all-or-nothing, also when a storage call fails between
\* the steps: every registration has its completed payment of the fee and
\* exactly one standing, and no completed registration payment and no standing
\* is without its registration.  Stated for the states in which no register
\* handler is in flight, the least the claim's "every reachable state" asks
C14_RegistrationAllOrNothing ==
    ~RegisterInFlight =>
        /\ \A i \in Rows(registrations) :
              /\ PaidRegistration(registrations[i])
              /\ Cardinality(StandingsOf(registrations[i].competitionId,
                                         registrations[i].teamId)) = 1
        /\ \A p \in Rows(payments) :
              (payments[p].type = "registration" /\ payments[p].status = "completed")
                  => \E i \in Rows(registrations) : registrations[i].paymentId = p
        /\ \A k \in Rows(standings) :
              isTeamRegistered(standings[k].competitionId, standings[k].teamId)

\* -------------------------------------------------------------------------
\* C15: while a match is waiting or completed no step stores an answer for
\* it, changes its persisted scores or broadcasts a score_update for it
C15_AnswersOnlyWhileLive ==
    [][\A m \in MatchIds :
          matches[m].status # "live" =>
              /\ {i \in Rows(playerAnswers') : playerAnswers'[i].matchId = m}
                     = AnswersByMatch(m)
              /\ matches'[m].homeScore = matches[m].homeScore
              /\ matches'[m].awayScore = matches[m].awayScore
              /\ ~\E h \in Handlers :
                     submit_broadcast(h) /\ handlers[h].matchId = m]_vars

\* -------------------------------------------------------------------------
\* C20: once a player has answered a question of a match, a further answer of
\* that player to that question is not accepted: at most one answer is stored
\* (and so counted) for each match, question and user
C20_AnswerLockIn ==
    \A i, j \in Rows(playerAnswers) :
        (/\ playerAnswers[i].matchId = playerAnswers[j].matchId
         /\ playerAnswers[i].questionId = playerAnswers[j].questionId
         /\ playerAnswers[i].userId = playerAnswers[j].userId) => i = j

\* -------------------------------------------------------------------------
\* C16: for every quantity the Buy Tokens dialog can send, the total on the
\* Pay button equals the amount of the payment the server creates for it
C16_ShownPriceIsCharged ==
    [][\A r \in Requests :
          tokens_createPayment(r) =>
              payments'[Len(payments')].amount = httpReqs[r].shown]_vars

\* -------------------------------------------------------------------------
TokensInFlight == \E r \in Requests : httpReqs[r].pc # "idle"

\* the purchase transactions that credit payment p
CreditsOf(p) ==
    {k \in Rows(tokenTransactions) :
        /\ tokenTransactions[k].type = "purchase"
        /\ tokenTransactions[k].paymentId = p
        /\ tokenTransactions[k].teamId = payments[p].teamId
        /\ totalPrice(tokenTransactions[k].amount) = payments[p].amount}

\* the quantity of tokens the first n payments paid for team t
RECURSIVE PaidQuantity(_, _)
PaidQuantity(t, n) ==
    IF n = 0 THEN 0
    ELSE PaidQuantity(t, n - 1)
         + (IF /\ payments[n].type = "tokens"
               /\ payments[n].status = "completed"
               /\ payments[n].teamId = t
            THEN payments[n].amount \div tokenPrice ELSE 0)

\* C17: every completed tokens payment for quantity n has one purchase
\* transaction of amount n linked to it, and the named team's practiceTokens
\* went up by exactly n for it; checked once the purchases have been answered
C17_TokensCreditedWhenPaid ==
    ~TokensInFlight =>
        /\ \A p \in Rows(payments) :
              (payments[p].type = "tokens" /\ payments[p].status = "completed")
                  => Cardinality(CreditsOf(p)) = 1
        /\ \A t \in TeamIds \cup {UnknownTeam} :
              TokensOf(t) = InitialTokens(t) + PaidQuantity(t, Len(payments))

\* -------------------------------------------------------------------------
\* DATABASE_URL is set: it names a database
DatabaseUrlSet == env.DATABASE_URL \notin {Undefined, ""}

\* C18: once started, the server uses DatabaseStorage when DATABASE_URL is
\* set, LocalStorageAdapter when it is unset outside production, and the start
\* throws 'DATABASE_URL must be set in production' exactly when DATABASE_URL
\* is unset and NODE_ENV is production
C18_BackendSelection ==
    storage # Unstarted =>
        /\ DatabaseUrlSet => storage = "DatabaseStorage"
        /\ (~DatabaseUrlSet /\ env.NODE_ENV # "production")
               => storage = "LocalStorageAdapter"
        /\ storage = StartupError
               <=> (~DatabaseUrlSet /\ env.NODE_ENV = "production")

\* what the server does instead: DatabaseStorage is never selected
DatabaseNeverSelected == storage # "DatabaseStorage"

\* -------------------------------------------------------------------------
\* C19: for the same stored matches and team memberships, getDashboardData of
\* DatabaseStorage and of LocalStorageAdapter return the same upcomingMatches
\* for every user
C19_SameUpcomingMatches ==
    \A u \in UserIds :
        upcomingMatches("DatabaseStorage", u) = upcomingMatches("LocalStorageAdapter", u)

\* what the two implementations do agree on: the matches LocalStorageAdapter
\* returns are, in the same order, the waiting ones among those DatabaseStorage
\* returns
LocalIsWaitingPartOfDatabase ==
    \A u \in UserIds :
        LocalUpcomingMatches(u) =
            SelectSeq(DatabaseUpcomingMatches(u), LAMBDA m : matches[m].status = "waiting")

====
